---- MODULE Spec2Model ----
(***************************************************************************)
(* Provider negotiation of the FIPS module (providers/fips/fipsprov.c):    *)
(* the scan of the host dispatch table into the c_* registry, context      *)
(* creation, the known-answer self-check, the binding of the outgoing      *)
(* dispatch table, internal re-entry, teardown and the parameter protocol. *)
(***************************************************************************)
EXTENDS Integers, Sequences, FiniteSets, TLC

VARIABLES
    reg,        \* the c_* function pointers captured from the core
    pre_reg,    \* history: reg at entry of the latest OSSL_provider_init
    pc,         \* position of the running OSSL_provider_init, "idle" if none
    in,         \* the host table just scanned (kept until OPENSSL_CTX_new)
    ctx,        \* local OPENSSL_CTX *ctx of the running OSSL_provider_init
    st,         \* self-check of the latest call: "not_run", "passed", "failed"
    out,        \* the *out slot of the latest OSSL_provider_init call
    provctx,    \* the *provctx slot of the latest OSSL_provider_init call
    iout,       \* the *out slot of the module's own (internal) caller
    iprovctx,   \* the pre-populated *provctx slot of the internal caller
    live,       \* the OPENSSL_CTX objects allocated and not yet freed
    created,    \* number of Context-creation events so far
    nExt,       \* number of OSSL_provider_init calls so far
    last,       \* the entry point that returned last, "none" at start
    ret,        \* its return value
    params,     \* the OSSL_PARAM array the host passes to fips_get_params
    nSucc,      \* number of OSSL_provider_init calls that returned 1
    nTorn,      \* number of teardown calls so far
    types,      \* what the latest fips_get_param_types call returned
    qop,        \* operation_id of the latest fips_query call, 0 if none yet
    algs,       \* what the latest fips_query call returned
    no_cache,   \* the caller's *no_cache slot
    wfn,        \* the forwarding wrapper invoked last, "none" at start
    wres,       \* what became of that invocation
    th          \* the calls of the concurrent reader threads

\* The variables of the read-only entry points, the wrappers and the threads.
others == <<types, qop, algs, no_cache, wfn, wres, th>>

vars == <<reg, pre_reg, pc, in, ctx, st, out, provctx,
          iout, iprovctx, live, created, nExt, last, ret, params,
          nSucc, nTorn, others>>

(***************************************************************************)
(* Bounds of the model.                                                    *)
(***************************************************************************)
MaxFirstLen == 3        \* entries of the first host table, terminator included
MaxTableLen == 2        \* entries of a later host table, terminator included
MaxNegotiations == 2    \* calls of OSSL_provider_init
MaxParams == 3          \* request slots before the terminating slot
NThreads == 2           \* threads calling the read-only entry points

(***************************************************************************)
(* Pointers.  Function pointers are names, "NULL" the null pointer; a      *)
(* table pointer is the table itself, NULL_TABLE the null table pointer;   *)
(* an OPENSSL_CTX pointer is a positive number, NULL_CTX the null one.     *)
(***************************************************************************)
NULL == "NULL"
NULL_TABLE == <<>>
NULL_CTX == 0

HostFns == {"h1", "h2"}     \* functions the core offers

(***************************************************************************)
(* Capability ids of the core's table, numbered in the order of the case   *)
(* labels of the scan; 0 terminates a table.                               *)
(***************************************************************************)
OSSL_FUNC_CORE_GET_PARAM_TYPES == 1
OSSL_FUNC_CORE_GET_PARAMS == 2
OSSL_FUNC_CORE_PUT_ERROR == 3
OSSL_FUNC_CORE_ADD_ERROR_VDATA == 4
OSSL_FUNC_CORE_GET_CRYPTO_MALLOC == 5
OSSL_FUNC_CORE_GET_CRYPTO_ZALLOC == 6
OSSL_FUNC_CORE_GET_CRYPTO_MEMDUP == 7
OSSL_FUNC_CORE_GET_CRYPTO_STRDUP == 8
OSSL_FUNC_CORE_GET_CRYPTO_STRNDUP == 9
OSSL_FUNC_CORE_GET_CRYPTO_FREE == 10
OSSL_FUNC_CORE_GET_CRYPTO_CLEAR_FREE == 11
OSSL_FUNC_CORE_GET_CRYPTO_REALLOC == 12
OSSL_FUNC_CORE_GET_CRYPTO_CLEAR_REALLOC == 13
OSSL_FUNC_CORE_GET_CRYPTO_SECURE_MALLOC == 14
OSSL_FUNC_CORE_GET_CRYPTO_SECURE_ZALLOC == 15
OSSL_FUNC_CORE_GET_CRYPTO_SECURE_FREE == 16
OSSL_FUNC_CORE_GET_CRYPTO_SECURE_CLEAR_FREE == 17
OSSL_FUNC_CORE_GET_CRYPTO_SECURE_MALLOC_INITIALIZED == 18

\* Capability ids of the module's own tables.
OSSL_FUNC_PROVIDER_TEARDOWN == 1024
OSSL_FUNC_PROVIDER_GET_PARAM_TYPES == 1025
OSSL_FUNC_PROVIDER_GET_PARAMS == 1026
OSSL_FUNC_PROVIDER_QUERY_OPERATION == 1027

(***************************************************************************)
(* The registry: the static c_* pointers, zero-initialised.                *)
(***************************************************************************)
RegFields == {"c_get_param_types", "c_get_params", "c_put_error",
              "c_add_error_vdata", "c_CRYPTO_malloc", "c_CRYPTO_zalloc",
              "c_CRYPTO_memdup", "c_CRYPTO_strdup", "c_CRYPTO_strndup",
              "c_CRYPTO_free", "c_CRYPTO_clear_free", "c_CRYPTO_realloc",
              "c_CRYPTO_clear_realloc", "c_CRYPTO_secure_malloc",
              "c_CRYPTO_secure_zalloc", "c_CRYPTO_secure_free",
              "c_CRYPTO_secure_clear_free",
              "c_CRYPTO_secure_malloc_initialized", "c_OPENSSL_cleanse"}

c_registry == [f \in RegFields |-> NULL]

(***************************************************************************)
(* The module's static tables.                                             *)
(***************************************************************************)
fips_dispatch_table ==
    << [function_id |-> OSSL_FUNC_PROVIDER_TEARDOWN, function |-> "OPENSSL_CTX_free"],
       [function_id |-> OSSL_FUNC_PROVIDER_GET_PARAM_TYPES, function |-> "fips_get_param_types"],
       [function_id |-> OSSL_FUNC_PROVIDER_GET_PARAMS, function |-> "fips_get_params"],
       [function_id |-> OSSL_FUNC_PROVIDER_QUERY_OPERATION, function |-> "fips_query"],
       [function_id |-> 0, function |-> NULL] >>

\* A table for internal use that also carries the teardown entry.
intern_table_with_teardown ==
    << [function_id |-> OSSL_FUNC_PROVIDER_QUERY_OPERATION, function |-> "fips_query"],
       [function_id |-> OSSL_FUNC_PROVIDER_TEARDOWN, function |-> "OPENSSL_CTX_free"],
       [function_id |-> 0, function |-> NULL] >>

intern_dispatch_table ==
    << [function_id |-> OSSL_FUNC_PROVIDER_QUERY_OPERATION, function |-> "fips_query"],
       [function_id |-> 0, function |-> NULL] >>

(***************************************************************************)
(* The scan of the host table, lines 154-214.                              *)
(***************************************************************************)
\* The registry entry a case label assigns; "" for the default label.
scan_case(id) ==
    CASE id = OSSL_FUNC_CORE_GET_PARAM_TYPES -> "c_get_param_types"
      [] id = OSSL_FUNC_CORE_GET_PARAMS -> "c_get_params"
      [] id = OSSL_FUNC_CORE_PUT_ERROR -> "c_put_error"
      [] id = OSSL_FUNC_CORE_ADD_ERROR_VDATA -> "c_add_error_vdata"
      [] id = OSSL_FUNC_CORE_GET_CRYPTO_MALLOC -> "c_CRYPTO_malloc"
      [] id = OSSL_FUNC_CORE_GET_CRYPTO_ZALLOC -> "c_CRYPTO_zalloc"
      [] id = OSSL_FUNC_CORE_GET_CRYPTO_MEMDUP -> "c_CRYPTO_memdup"
      [] id = OSSL_FUNC_CORE_GET_CRYPTO_STRDUP -> "c_CRYPTO_strdup"
      [] id = OSSL_FUNC_CORE_GET_CRYPTO_STRNDUP -> "c_CRYPTO_strndup"
      [] id = OSSL_FUNC_CORE_GET_CRYPTO_FREE -> "c_CRYPTO_free"
      [] id = OSSL_FUNC_CORE_GET_CRYPTO_CLEAR_FREE -> "c_CRYPTO_clear_free"
      [] id = OSSL_FUNC_CORE_GET_CRYPTO_REALLOC -> "c_CRYPTO_realloc"
      [] id = OSSL_FUNC_CORE_GET_CRYPTO_CLEAR_REALLOC -> "c_CRYPTO_clear_realloc"
      [] id = OSSL_FUNC_CORE_GET_CRYPTO_SECURE_MALLOC -> "c_CRYPTO_secure_malloc"
      [] id = OSSL_FUNC_CORE_GET_CRYPTO_SECURE_ZALLOC -> "c_CRYPTO_secure_zalloc"
      [] id = OSSL_FUNC_CORE_GET_CRYPTO_SECURE_FREE -> "c_CRYPTO_secure_free"
      [] id = OSSL_FUNC_CORE_GET_CRYPTO_SECURE_CLEAR_FREE -> "c_CRYPTO_secure_clear_free"
      [] id = OSSL_FUNC_CORE_GET_CRYPTO_SECURE_MALLOC_INITIALIZED -> "c_CRYPTO_secure_malloc_initialized"
      [] OTHER -> ""

\* scan_entry with a default label that falls into the first case.
scan_entry_fallthrough(e, r) ==
    IF scan_case(e.function_id) = ""
    THEN [r EXCEPT !.c_get_param_types = e.function]
    ELSE [r EXCEPT ![scan_case(e.function_id)] = e.function]

\* One turn of the switch: the entry's pointer goes to the matching c_*.
scan_entry(e, r) ==
    IF scan_case(e.function_id) = ""
    THEN r
    ELSE [r EXCEPT ![scan_case(e.function_id)] = e.function]

\* for (; in->function_id != 0; in++), starting at entry i.
RECURSIVE scan_from(_, _, _)
scan_from(t, i, r) ==
    IF t[i].function_id = 0
    THEN r
    ELSE scan_from(t, i + 1, scan_entry(t[i], r))

scan(t, r) == scan_from(t, 1, r)

(***************************************************************************)
(* Host tables offered to OSSL_provider_init: every zero-terminated table  *)
(* of at most n entries over two known ids, one unknown id and two host    *)
(* functions.  Entries may follow the first terminator.  The first         *)
(* negotiation after load draws from the longer tables.                    *)
(***************************************************************************)
UnknownIds == {99}
TableIds == {OSSL_FUNC_CORE_GET_PARAMS, OSSL_FUNC_CORE_GET_CRYPTO_ZALLOC} \cup UnknownIds

HostEntries ==
    {[function_id |-> 0, function |-> NULL]}
    \cup [function_id : TableIds, function : HostFns]

HostTables(n) ==
    {t \in UNION {[1..k -> HostEntries] : k \in 1..n} :
        \E i \in 1..Len(t) : t[i].function_id = 0}

FirstTables == HostTables(MaxFirstLen)
LaterTables == HostTables(MaxTableLen)

(***************************************************************************)
(* dummy_evp_call, lines 52-83.  The EVP calls are made outside this file; *)
(* e records what they returned: whether EVP_MD_CTX_new and EVP_MD_fetch   *)
(* gave an object, whether Init, Update and Final succeeded, and the       *)
(* digest and length Final produced.                                       *)
(***************************************************************************)
SHA256_DIGEST_LENGTH == 32

exptd == << 127, 131, 177, 101, 127, 241, 252,  83, 185,  45, 193, 129,
             72, 161, 214,  93, 252,  45,  75,  31, 163, 214, 119,  40,
             74, 221, 210,   0,  18, 109, 144, 105 >>

Digests == {exptd, [exptd EXCEPT ![SHA256_DIGEST_LENGTH] = 104]}

EvpOutcomes ==
    [md_ctx : BOOLEAN, sha256 : BOOLEAN, init : BOOLEAN, update : BOOLEAN,
     final : BOOLEAN, dgstlen : {20, SHA256_DIGEST_LENGTH}, dgst : Digests]

dummy_evp_call(e) ==
    IF ~e.md_ctx \/ ~e.sha256 THEN 0
    ELSE IF ~e.init THEN 0
    ELSE IF ~e.update THEN 0
    ELSE IF ~e.final THEN 0
    ELSE IF e.dgstlen # Len(exptd) \/ e.dgst # exptd THEN 0
    ELSE 1

(***************************************************************************)
(* OPENSSL_CTX_new and OPENSSL_CTX_free live outside this file.  new gives *)
(* a fresh context, or NULL when the allocation fails; free releases the   *)
(* context it is given.                                                    *)
(***************************************************************************)
OPENSSL_CTX_new(ok) == IF ok THEN created + 1 ELSE NULL_CTX

OPENSSL_CTX_free(c) == live \ {c}

(***************************************************************************)
(* The parameter protocol.  A request is an OSSL_PARAM array: slots of     *)
(* key, data_type and data (what the caller's buffer holds, NULL until     *)
(* filled), ended by a slot whose key is NULL.  Slots may follow it.       *)
(***************************************************************************)
OSSL_PARAM_UTF8_PTR == 6

OSSL_PROV_PARAM_NAME == "name"
OSSL_PROV_PARAM_VERSION == "version"
OSSL_PROV_PARAM_BUILDINFO == "buildinfo"

OPENSSL_VERSION_STR == "OPENSSL_VERSION_STR"
OPENSSL_FULL_VERSION_STR == "OPENSSL_FULL_VERSION_STR"

\* Parameters we provide to the core, lines 44-49.
fips_param_types ==
    << [id |-> OSSL_PARAM_UTF8_PTR, ptr |-> OSSL_PROV_PARAM_NAME],
       [id |-> OSSL_PARAM_UTF8_PTR, ptr |-> OSSL_PROV_PARAM_VERSION],
       [id |-> OSSL_PARAM_UTF8_PTR, ptr |-> OSSL_PROV_PARAM_BUILDINFO],
       [id |-> 0, ptr |-> NULL] >>

KnownKeys == {OSSL_PROV_PARAM_NAME, OSSL_PROV_PARAM_VERSION, OSSL_PROV_PARAM_BUILDINFO}

\* Requests: the three known names and one the module does not know, each
\* asked for as a UTF8 pointer or as an integer (type 1).
ParamKeys == KnownKeys \cup {"module-filename"}
ParamTypes == {OSSL_PARAM_UTF8_PTR, 1}

ParamEnd == [key |-> NULL, data_type |-> 0, data |-> NULL]
ParamSlots == [key : ParamKeys, data_type : ParamTypes, data : {NULL}] \cup {ParamEnd}

ParamArrays ==
    {a \in UNION {[1..n -> ParamSlots] : n \in 1..(MaxParams + 1)} :
        a[Len(a)] = ParamEnd}

\* OSSL_PARAM_locate(p, key): the first slot before the end slot whose key
\* is `key`, as an index; 0 for NULL.
RECURSIVE locate_from(_, _, _)
locate_from(a, i, key) ==
    IF a[i].key = NULL THEN 0
    ELSE IF a[i].key = key THEN i
    ELSE locate_from(a, i + 1, key)

OSSL_PARAM_locate(a, key) == locate_from(a, 1, key)

\* OSSL_PARAM_set_utf8_ptr(p, val): 0 unless the slot is a UTF8 pointer,
\* else the caller's buffer is made to point to val and 1 is returned.
OSSL_PARAM_set_utf8_ptr(a, i, val) ==
    IF a[i].data_type # OSSL_PARAM_UTF8_PTR
    THEN [ret |-> 0, params |-> a]
    ELSE [ret |-> 1, params |-> [a EXCEPT ![i].data = val]]

\* get_param that treats a name the request lacks as an error.
get_param_required(a, key, val) ==
    LET p == OSSL_PARAM_locate(a, key)
    IN IF p # 0 THEN OSSL_PARAM_set_utf8_ptr(a, p, val)
       ELSE [ret |-> 0, params |-> a]

\* One locate-and-set pair of fips_get_params (95-97, 98-100, 101-103).
get_param(a, key, val) ==
    LET p == OSSL_PARAM_locate(a, key)
    IN IF p # 0 THEN OSSL_PARAM_set_utf8_ptr(a, p, val)
       ELSE [ret |-> 1, params |-> a]

\* fips_get_params that answers build-info with the short version string.
fips_get_params_short_buildinfo(a) ==
    LET r1 == get_param(a, OSSL_PROV_PARAM_NAME, "OpenSSL FIPS Provider")
    IN IF r1.ret = 0 THEN r1
       ELSE LET r2 == get_param(r1.params, OSSL_PROV_PARAM_VERSION, OPENSSL_VERSION_STR)
            IN IF r2.ret = 0 THEN r2
               ELSE get_param(r2.params, OSSL_PROV_PARAM_BUILDINFO, OPENSSL_VERSION_STR)

\* fips_get_params, lines 90-106: the return value and the array it leaves.
fips_get_params_body(a) ==
    LET r1 == get_param(a, OSSL_PROV_PARAM_NAME, "OpenSSL FIPS Provider")
    IN IF r1.ret = 0 THEN r1
       ELSE LET r2 == get_param(r1.params, OSSL_PROV_PARAM_VERSION, OPENSSL_VERSION_STR)
            IN IF r2.ret = 0 THEN r2
               ELSE LET r3 == get_param(r2.params, OSSL_PROV_PARAM_BUILDINFO,
                                        OPENSSL_FULL_VERSION_STR)
                    IN IF r3.ret = 0 THEN r3
                       ELSE [ret |-> 1, params |-> r3.params]

(***************************************************************************)
(* Threads of the host that call the read-only entry points.  A thread     *)
(* holds its own request array and its own *no_cache slot; between calls   *)
(* it holds nothing.                                                       *)
(***************************************************************************)
Threads == 1..NThreads

IdleThread ==
    [pc |-> "idle", fn |-> "none", op |-> 0, req |-> <<>>, params |-> <<>>,
     no_cache |-> 1, ret |-> 0, list |-> NULL_TABLE]

(***************************************************************************)
(* State at module load.                                                   *)
(***************************************************************************)
Init ==
    /\ reg = c_registry
    /\ pre_reg = c_registry
    /\ pc = "idle"
    /\ in = NULL_TABLE
    /\ ctx = NULL_CTX
    /\ st = "not_run"
    /\ out = NULL_TABLE
    /\ provctx = NULL_CTX
    /\ iout = NULL_TABLE
    /\ iprovctx = NULL_CTX
    /\ live = {}
    /\ created = 0
    /\ nExt = 0
    /\ last = "none"
    /\ ret = 0
    /\ params = <<>>
    /\ nSucc = 0
    /\ nTorn = 0
    /\ types = NULL_TABLE
    /\ qop = 0
    /\ algs = NULL_TABLE
    /\ no_cache = 1
    /\ wfn = "none"
    /\ wres = "none"
    /\ th = [t \in Threads |-> IdleThread]

(***************************************************************************)
(* OSSL_provider_init, lines 147-232, in four steps.                       *)
(***************************************************************************)
\* Entry and the scan loop (154-214).  The caller hands in the slots of the
\* provider object it is loading, which hold null pointers on entry.
OSSL_provider_init_scan(t) ==
    /\ pc = "idle"
    /\ nExt < MaxNegotiations
    /\ nExt' = nExt + 1
    /\ pre_reg' = reg
    /\ reg' = scan(t, reg)
    /\ in' = t
    /\ out' = NULL_TABLE
    /\ provctx' = NULL_CTX
    /\ ctx' = NULL_CTX
    /\ st' = "not_run"
    /\ pc' = "ctx_new"
    /\ UNCHANGED <<iout, iprovctx, live, created, last, ret, params,
                   nSucc, nTorn, others>>

\* ctx = OPENSSL_CTX_new(); if (ctx == NULL) return 0;  (216-218)
OSSL_provider_init_ctx_new ==
    /\ pc = "ctx_new"
    /\ \E ok \in BOOLEAN :
          /\ ctx' = OPENSSL_CTX_new(ok)
          /\ IF ctx' = NULL_CTX
             THEN /\ pc' = "idle"
                  /\ last' = "OSSL_provider_init"
                  /\ ret' = 0
                  /\ UNCHANGED <<live, created>>
             ELSE /\ pc' = "self_check"
                  /\ live' = live \cup {ctx'}
                  /\ created' = created + 1
                  /\ UNCHANGED <<last, ret>>
    /\ in' = NULL_TABLE
    /\ UNCHANGED <<reg, pre_reg, st, out, provctx,
                   iout, iprovctx, nExt, params,
                   nSucc, nTorn, others>>

\* The self-check step with its result ignored: a warning, not a gate.
self_check_ungated ==
    /\ pc = "self_check"
    /\ \E e \in EvpOutcomes :
          st' = IF dummy_evp_call(e) = 0 THEN "failed" ELSE "passed"
    /\ pc' = "bind"
    /\ UNCHANGED <<reg, pre_reg, in, ctx, out, provctx, live, last, ret,
                   iout, iprovctx, created, nExt, params,
                   nSucc, nTorn, others>>

\* The self-check step returning failure without OPENSSL_CTX_free(ctx).
self_check_leak ==
    /\ pc = "self_check"
    /\ \E e \in EvpOutcomes :
          IF dummy_evp_call(e) = 0
          THEN /\ st' = "failed"
               /\ pc' = "idle"
               /\ last' = "OSSL_provider_init"
               /\ ret' = 0
          ELSE /\ st' = "passed"
               /\ pc' = "bind"
               /\ UNCHANGED <<last, ret>>
    /\ UNCHANGED <<reg, pre_reg, in, ctx, out, provctx, live,
                   iout, iprovctx, created, nExt, params,
                   nSucc, nTorn, others>>

\* if (!dummy_evp_call(ctx)) { OPENSSL_CTX_free(ctx); return 0; }  (224-227)
OSSL_provider_init_self_check ==
    /\ pc = "self_check"
    /\ \E e \in EvpOutcomes :
          IF dummy_evp_call(e) = 0
          THEN /\ st' = "failed"
               /\ live' = OPENSSL_CTX_free(ctx)
               /\ pc' = "idle"
               /\ last' = "OSSL_provider_init"
               /\ ret' = 0
          ELSE /\ st' = "passed"
               /\ pc' = "bind"
               /\ UNCHANGED <<live, last, ret>>
    /\ UNCHANGED <<reg, pre_reg, in, ctx, out, provctx,
                   iout, iprovctx, created, nExt, params,
                   nSucc, nTorn, others>>

\* The bind step handing out the table meant for the module itself.
bind_intern_table ==
    /\ pc = "bind"
    /\ out' = intern_dispatch_table
    /\ provctx' = ctx
    /\ pc' = "idle"
    /\ last' = "OSSL_provider_init"
    /\ ret' = 1
    /\ UNCHANGED <<reg, pre_reg, in, ctx, st,
                   iout, iprovctx, live, created, nExt, params,
                   nTorn, others>>
    /\ nSucc' = nSucc + 1

\* *out = fips_dispatch_table; *provctx = ctx; return 1;  (229-231)
OSSL_provider_init_bind ==
    /\ pc = "bind"
    /\ out' = fips_dispatch_table
    /\ provctx' = ctx
    /\ pc' = "idle"
    /\ last' = "OSSL_provider_init"
    /\ ret' = 1
    /\ UNCHANGED <<reg, pre_reg, in, ctx, st,
                   iout, iprovctx, live, created, nExt, params,
                   nTorn, others>>
    /\ nSucc' = nSucc + 1

(***************************************************************************)
(* fips_intern_provider_init, lines 246-253.  The module's own dispatch    *)
(* machinery calls it with *provctx pre-populated with the library context *)
(* of the EVP call under way: a context handed out by an earlier           *)
(* negotiation, or the one dummy_evp_call is running on.                   *)
(***************************************************************************)
\* Internal re-entry that allocates a context of its own, as the external
\* entry point does.
intern_creates_ctx(c) ==
    /\ \/ pc = "idle" /\ c \in live
       \/ pc = "self_check" /\ c = ctx
    /\ created < MaxNegotiations
    /\ created' = created + 1
    /\ live' = live \cup {created + 1}
    /\ iprovctx' = created + 1
    /\ iout' = intern_dispatch_table
    /\ last' = "fips_intern_provider_init"
    /\ ret' = 1
    /\ UNCHANGED <<reg, pre_reg, pc, in, ctx, st, out, provctx, nExt, params,
                   nSucc, nTorn, others>>

fips_intern_provider_init(c) ==
    /\ \/ pc = "idle" /\ c \in live
       \/ pc = "self_check" /\ c = ctx
    /\ iprovctx' = c
    /\ iout' = intern_dispatch_table
    /\ last' = "fips_intern_provider_init"
    /\ ret' = 1
    /\ UNCHANGED <<reg, pre_reg, pc, in, ctx, st, out, provctx,
                   live, created, nExt, params,
                   nSucc, nTorn, others>>

\* A teardown that destroys every Context, not only the one it is given.
teardown_all(h) ==
    /\ pc = "idle"
    /\ h \in live
    /\ fips_dispatch_table[1].function = "OPENSSL_CTX_free"
    /\ live' = {}
    /\ last' = "OPENSSL_CTX_free"
    /\ UNCHANGED <<reg, pre_reg, pc, in, ctx, st, out, provctx,
                   iout, iprovctx, created, nExt, ret, params,
                   nSucc, others>>
    /\ nTorn' = nTorn + 1

(***************************************************************************)
(* Teardown: the OSSL_FUNC_PROVIDER_TEARDOWN entry of fips_dispatch_table  *)
(* is OPENSSL_CTX_free (line 133).  The host calls it on a handle it was   *)
(* given and has not torn down yet.                                        *)
(***************************************************************************)
provider_teardown(h) ==
    /\ pc = "idle"
    /\ h \in live
    /\ fips_dispatch_table[1].function = "OPENSSL_CTX_free"
    /\ live' = OPENSSL_CTX_free(h)
    /\ last' = "OPENSSL_CTX_free"
    /\ UNCHANGED <<reg, pre_reg, pc, in, ctx, st, out, provctx,
                   iout, iprovctx, created, nExt, ret, params,
                   nSucc, others>>
    /\ nTorn' = nTorn + 1

(***************************************************************************)
(* fips_get_params as the host calls it: through the                       *)
(* OSSL_FUNC_PROVIDER_GET_PARAMS entry of the table a successful           *)
(* negotiation gave it, on a provider that is not torn down.  The call     *)
(* fills the host's array in place.                                        *)
(***************************************************************************)
fips_get_params ==
    /\ pc = "idle"
    /\ provctx \in live
    /\ \E i \in 1..Len(out) :
          /\ out[i].function_id = OSSL_FUNC_PROVIDER_GET_PARAMS
          /\ out[i].function = "fips_get_params"
    /\ params # <<>>
    /\ params' = fips_get_params_body(params).params
    /\ ret' = fips_get_params_body(params).ret
    /\ last' = "fips_get_params"
    /\ UNCHANGED <<reg, pre_reg, pc, in, ctx, st, out, provctx,
                   iout, iprovctx, live, created, nExt,
                   nSucc, nTorn, others>>

(***************************************************************************)
(* fips_get_param_types, lines 85-88: returns the static fips_param_types. *)
(* The host calls it through the OSSL_FUNC_PROVIDER_GET_PARAM_TYPES entry  *)
(* of the table a successful negotiation gave it.                          *)
(***************************************************************************)
\* A list that has lost its build-info entry.
param_types_short ==
    << [id |-> OSSL_PARAM_UTF8_PTR, ptr |-> OSSL_PROV_PARAM_NAME],
       [id |-> OSSL_PARAM_UTF8_PTR, ptr |-> OSSL_PROV_PARAM_VERSION],
       [id |-> 0, ptr |-> NULL] >>

fips_get_param_types_body == fips_param_types

fips_get_param_types ==
    /\ pc = "idle"
    /\ provctx \in live
    /\ \E i \in 1..Len(out) :
          /\ out[i].function_id = OSSL_FUNC_PROVIDER_GET_PARAM_TYPES
          /\ out[i].function = "fips_get_param_types"
    /\ types' = fips_get_param_types_body
    /\ last' = "fips_get_param_types"
    /\ UNCHANGED <<reg, pre_reg, pc, in, ctx, st, out, provctx,
                   iout, iprovctx, live, created, nExt, ret, params,
                   nSucc, nTorn, qop, algs, no_cache, wfn, wres, th>>

(***************************************************************************)
(* fips_query, lines 115-125, and the algorithm list it hands out, lines   *)
(* 110-113.  A list is a sequence ending in the all-NULL descriptor; the   *)
(* NULL list is the empty sequence.                                        *)
(***************************************************************************)
OSSL_OP_DIGEST == 1

\* Categories a caller asks about: digests, and two the switch has no case
\* for.
OperationIds == {OSSL_OP_DIGEST, 2, 77}

\* A list whose terminating descriptor is missing.
digests_unterminated ==
    << [algorithm_name |-> "SHA256", property_definition |-> "fips=yes",
        implementation |-> "sha256_functions"] >>

fips_digests ==
    << [algorithm_name |-> "SHA256", property_definition |-> "fips=yes",
        implementation |-> "sha256_functions"],
       [algorithm_name |-> NULL, property_definition |-> NULL,
        implementation |-> NULL] >>

\* A switch whose every category falls into the digest case.
query_default_digests(operation_id) ==
    [no_cache |-> 0, ret |-> fips_digests]

\* What one call writes to *no_cache and what it returns.
fips_query_body(operation_id) ==
    [no_cache |-> 0,
     ret |-> IF operation_id = OSSL_OP_DIGEST THEN fips_digests ELSE NULL_TABLE]

\* The query without the store to *no_cache of line 119.
fips_query_no_store(operation_id) ==
    /\ qop' = operation_id
    /\ algs' = fips_query_body(operation_id).ret
    /\ last' = "fips_query"
    /\ UNCHANGED <<reg, pre_reg, pc, in, ctx, st, out, provctx,
                   iout, iprovctx, live, created, nExt, ret, params,
                   nSucc, nTorn, types, no_cache, wfn, wres, th>>

\* One fips_query call, whoever makes it.
fips_query_call(operation_id) ==
    /\ qop' = operation_id
    /\ algs' = fips_query_body(operation_id).ret
    /\ no_cache' = fips_query_body(operation_id).no_cache
    /\ last' = "fips_query"
    /\ UNCHANGED <<reg, pre_reg, pc, in, ctx, st, out, provctx,
                   iout, iprovctx, live, created, nExt, ret, params,
                   nSucc, nTorn, types, wfn, wres, th>>

\* *no_cache is the caller's: between queries it holds whatever the caller
\* leaves in it.
caller_no_cache(v) ==
    /\ pc = "idle"
    /\ no_cache # v
    /\ no_cache' = v
    /\ UNCHANGED <<reg, pre_reg, pc, in, ctx, st, out, provctx,
                   iout, iprovctx, live, created, nExt, last, ret, params,
                   nSucc, nTorn, types, qop, algs, wfn, wres, th>>

\* The host's query, through the OSSL_FUNC_PROVIDER_QUERY_OPERATION entry
\* of the table it was given.
fips_query(operation_id) ==
    /\ pc = "idle"
    /\ provctx \in live
    /\ \E i \in 1..Len(out) :
          /\ out[i].function_id = OSSL_FUNC_PROVIDER_QUERY_OPERATION
          /\ out[i].function = "fips_query"
    /\ fips_query_call(operation_id)

(***************************************************************************)
(* A call the module's own code makes through the table that               *)
(* fips_intern_provider_init handed out: it picks an entry before the      *)
(* terminator and invokes the function stored there on the handle it       *)
(* holds.  With intern_dispatch_table (141-144) that function is           *)
(* fips_query.                                                             *)
(***************************************************************************)
intern_call(i, operation_id) ==
    /\ pc \in {"idle", "self_check"}
    /\ iout # NULL_TABLE
    /\ iprovctx \in live
    /\ i \in 1..Len(iout)
    /\ \A j \in 1..i : iout[j].function_id # 0
    /\ IF iout[i].function = "fips_query" THEN fips_query_call(operation_id)
       ELSE IF iout[i].function = "OPENSSL_CTX_free" THEN provider_teardown(iprovctx)
       ELSE IF iout[i].function = "fips_get_param_types" THEN fips_get_param_types
       ELSE fips_get_params

(***************************************************************************)
(* The forwarding wrappers, lines 255-352.  Each one calls through its     *)
(* static pointer and does nothing else; none tests the pointer.           *)
(* ERR_add_error_data (266-272) goes through ERR_add_error_vdata.          *)
(***************************************************************************)
Wrappers == {"ERR_put_error", "ERR_add_error_data", "ERR_add_error_vdata",
             "CRYPTO_malloc", "CRYPTO_zalloc", "CRYPTO_memdup",
             "CRYPTO_strdup", "CRYPTO_strndup", "CRYPTO_free",
             "CRYPTO_clear_free", "CRYPTO_realloc", "CRYPTO_clear_realloc",
             "CRYPTO_secure_malloc", "CRYPTO_secure_zalloc",
             "CRYPTO_secure_free", "CRYPTO_secure_clear_free",
             "CRYPTO_secure_malloc_initialized", "OPENSSL_cleanse"}

\* The static pointer a wrapper calls through.
wrapper_backing(w) ==
    CASE w = "ERR_put_error" -> "c_put_error"
      [] w = "ERR_add_error_data" -> "c_add_error_vdata"
      [] w = "ERR_add_error_vdata" -> "c_add_error_vdata"
      [] w = "CRYPTO_malloc" -> "c_CRYPTO_malloc"
      [] w = "CRYPTO_zalloc" -> "c_CRYPTO_zalloc"
      [] w = "CRYPTO_memdup" -> "c_CRYPTO_memdup"
      [] w = "CRYPTO_strdup" -> "c_CRYPTO_strdup"
      [] w = "CRYPTO_strndup" -> "c_CRYPTO_strndup"
      [] w = "CRYPTO_free" -> "c_CRYPTO_free"
      [] w = "CRYPTO_clear_free" -> "c_CRYPTO_clear_free"
      [] w = "CRYPTO_realloc" -> "c_CRYPTO_realloc"
      [] w = "CRYPTO_clear_realloc" -> "c_CRYPTO_clear_realloc"
      [] w = "CRYPTO_secure_malloc" -> "c_CRYPTO_secure_malloc"
      [] w = "CRYPTO_secure_zalloc" -> "c_CRYPTO_secure_zalloc"
      [] w = "CRYPTO_secure_free" -> "c_CRYPTO_secure_free"
      [] w = "CRYPTO_secure_clear_free" -> "c_CRYPTO_secure_clear_free"
      [] w = "CRYPTO_secure_malloc_initialized" -> "c_CRYPTO_secure_malloc_initialized"
      [] w = "OPENSSL_cleanse" -> "c_OPENSSL_cleanse"

\* A call through a null function pointer is undefined: the process is
\* killed, or control goes to whatever sits at that address and anything
\* at all comes back.  A call through a captured pointer runs the host's
\* function.
call_through(p) == IF p = NULL THEN {"crashed", "arbitrary"} ELSE {p}

\* The module's code (context creation and the self-check inside
\* OSSL_provider_init, the algorithm implementations between calls)
\* invokes wrapper w.
wrapper_call(w) ==
    /\ pc \in {"idle", "ctx_new", "self_check"}
    /\ wfn' = w
    /\ wres' \in call_through(reg[wrapper_backing(w)])
    /\ UNCHANGED <<reg, pre_reg, pc, in, ctx, st, out, provctx,
                   iout, iprovctx, live, created, nExt, last, ret, params,
                   nSucc, nTorn, types, qop, algs, no_cache, th>>

(***************************************************************************)
(* The read-only entry points as concurrent threads run them, one memory   *)
(* access per step: fips_get_param_types is one load (87); fips_get_params *)
(* is the three locate-and-set pairs of lines 95-103 on the thread's own   *)
(* array; fips_query is the store to the thread's own *no_cache (119) and  *)
(* then the switch (120-124).  A thread makes one call.                    *)
(***************************************************************************)
Serving ==
    /\ pc = "idle"
    /\ provctx \in live
    /\ out = fips_dispatch_table

thread_get_param_types(t) ==
    /\ Serving
    /\ th[t].pc = "idle"
    /\ th' = [th EXCEPT ![t].fn = "fips_get_param_types",
                        ![t].list = fips_param_types,
                        ![t].pc = "done"]
    /\ UNCHANGED <<reg, pre_reg, pc, in, ctx, st, out, provctx,
                   iout, iprovctx, live, created, nExt, last, ret, params,
                   nSucc, nTorn, types, qop, algs, no_cache, wfn, wres>>

\* One locate-and-set pair of thread t on array a, going on to pc `next`
\* unless the set failed.
thread_get_param(t, a, key, val, next) ==
    LET r == get_param(a, key, val)
    IN th' = [th EXCEPT ![t].params = r.params,
                        ![t].ret = IF next = "done" THEN r.ret ELSE 0,
                        ![t].pc = IF r.ret = 0 THEN "done" ELSE next]

thread_get_params_name(t, a) ==
    /\ Serving
    /\ th[t].pc = "idle"
    /\ \E r \in {get_param(a, OSSL_PROV_PARAM_NAME, "OpenSSL FIPS Provider")} :
          th' = [th EXCEPT ![t].fn = "fips_get_params",
                           ![t].req = a,
                           ![t].params = r.params,
                           ![t].pc = IF r.ret = 0 THEN "done" ELSE "version"]
    /\ UNCHANGED <<reg, pre_reg, pc, in, ctx, st, out, provctx,
                   iout, iprovctx, live, created, nExt, last, ret, params,
                   nSucc, nTorn, types, qop, algs, no_cache, wfn, wres>>

thread_get_params_version(t) ==
    /\ Serving
    /\ th[t].pc = "version"
    /\ thread_get_param(t, th[t].params, OSSL_PROV_PARAM_VERSION,
                        OPENSSL_VERSION_STR, "buildinfo")
    /\ UNCHANGED <<reg, pre_reg, pc, in, ctx, st, out, provctx,
                   iout, iprovctx, live, created, nExt, last, ret, params,
                   nSucc, nTorn, types, qop, algs, no_cache, wfn, wres>>

thread_get_params_buildinfo(t) ==
    /\ Serving
    /\ th[t].pc = "buildinfo"
    /\ thread_get_param(t, th[t].params, OSSL_PROV_PARAM_BUILDINFO,
                        OPENSSL_FULL_VERSION_STR, "done")
    /\ UNCHANGED <<reg, pre_reg, pc, in, ctx, st, out, provctx,
                   iout, iprovctx, live, created, nExt, last, ret, params,
                   nSucc, nTorn, types, qop, algs, no_cache, wfn, wres>>

\* A query whose store goes to one slot all threads share.
thread_query_store_shared(t, operation_id) ==
    /\ Serving
    /\ th[t].pc = "idle"
    /\ th' = [th EXCEPT ![t].fn = "fips_query",
                        ![t].op = operation_id,
                        ![t].pc = "switch"]
    /\ no_cache' = 0
    /\ UNCHANGED <<reg, pre_reg, pc, in, ctx, st, out, provctx,
                   iout, iprovctx, live, created, nExt, last, ret, params,
                   nSucc, nTorn, types, qop, algs, wfn, wres>>

thread_query_store(t, operation_id) ==
    /\ Serving
    /\ th[t].pc = "idle"
    /\ th' = [th EXCEPT ![t].fn = "fips_query",
                        ![t].op = operation_id,
                        ![t].no_cache = 0,
                        ![t].pc = "switch"]
    /\ UNCHANGED <<reg, pre_reg, pc, in, ctx, st, out, provctx,
                   iout, iprovctx, live, created, nExt, last, ret, params,
                   nSucc, nTorn, types, qop, algs, no_cache, wfn, wres>>

thread_query_switch(t) ==
    /\ Serving
    /\ th[t].pc = "switch"
    /\ th' = [th EXCEPT ![t].list = IF th[t].op = OSSL_OP_DIGEST
                                    THEN fips_digests ELSE NULL_TABLE,
                        ![t].pc = "done"]
    /\ UNCHANGED <<reg, pre_reg, pc, in, ctx, st, out, provctx,
                   iout, iprovctx, live, created, nExt, last, ret, params,
                   nSucc, nTorn, types, qop, algs, no_cache, wfn, wres>>

Contexts == 1..MaxNegotiations

Next ==
    \/ nExt = 0 /\ \E t \in FirstTables : OSSL_provider_init_scan(t)
    \/ nExt > 0 /\ \E t \in LaterTables : OSSL_provider_init_scan(t)
    \/ OSSL_provider_init_ctx_new
    \/ OSSL_provider_init_self_check
    \/ OSSL_provider_init_bind
    \/ \E c \in Contexts : fips_intern_provider_init(c)
    \/ \E h \in Contexts : provider_teardown(h)

Spec == Init /\ [][Next]_vars

(***************************************************************************)
(* The parameter protocol on its own: the module right after a first       *)
(* successful negotiation, the host holding a request array it has         *)
(* prepared, then any number of fips_get_params calls on that array.       *)
(***************************************************************************)
InitParams ==
    /\ reg \in {scan(t, c_registry) : t \in FirstTables}
    /\ pre_reg = c_registry
    /\ pc = "idle"
    /\ in = NULL_TABLE
    /\ ctx = 1
    /\ st = "passed"
    /\ out = fips_dispatch_table
    /\ provctx = 1
    /\ iout = NULL_TABLE
    /\ iprovctx = NULL_CTX
    /\ live = {1}
    /\ created = 1
    /\ nExt = 1
    /\ last = "OSSL_provider_init"
    /\ ret = 1
    /\ params \in ParamArrays
    /\ nSucc = 1
    /\ nTorn = 0
    /\ types = NULL_TABLE
    /\ qop = 0
    /\ algs = NULL_TABLE
    /\ no_cache = 1
    /\ wfn = "none"
    /\ wres = "none"
    /\ th = [t \in Threads |-> IdleThread]

NextParams == fips_get_params

SpecParams == InitParams /\ [][NextParams]_vars

(***************************************************************************)
(* The entry points that only read: the module from load on, negotiated    *)
(* with the host table that offers nothing, the host holding one request   *)
(* array of at most one request, and every call the two outgoing tables    *)
(* allow in any order.                                                     *)
(***************************************************************************)
ReadTables == HostTables(1)
ReadArrays == {a \in ParamArrays : Len(a) <= 2}

InitReads ==
    /\ reg = c_registry
    /\ pre_reg = c_registry
    /\ pc = "idle"
    /\ in = NULL_TABLE
    /\ ctx = NULL_CTX
    /\ st = "not_run"
    /\ out = NULL_TABLE
    /\ provctx = NULL_CTX
    /\ iout = NULL_TABLE
    /\ iprovctx = NULL_CTX
    /\ live = {}
    /\ created = 0
    /\ nExt = 0
    /\ last = "none"
    /\ ret = 0
    /\ params \in ReadArrays
    /\ nSucc = 0
    /\ nTorn = 0
    /\ types = NULL_TABLE
    /\ qop = 0
    /\ algs = NULL_TABLE
    /\ no_cache = 1
    /\ wfn = "none"
    /\ wres = "none"
    /\ th = [t \in Threads |-> IdleThread]

NextReads ==
    \/ \E t \in ReadTables : OSSL_provider_init_scan(t)
    \/ OSSL_provider_init_ctx_new
    \/ OSSL_provider_init_self_check
    \/ OSSL_provider_init_bind
    \/ \E c \in Contexts : fips_intern_provider_init(c)
    \/ \E h \in Contexts : provider_teardown(h)
    \/ fips_get_param_types
    \/ fips_get_params
    \/ \E v \in {0, 1} : caller_no_cache(v)
    \/ \E op \in OperationIds : fips_query(op)
    \/ \E i \in 1..Len(iout), op \in OperationIds : intern_call(i, op)

SpecReads == InitReads /\ [][NextReads]_vars

(***************************************************************************)
(* The wrappers and the registry: the module from load on, one negotiation *)
(* with a host table that offers every capability the scan has a case for, *)
(* or every one but one, or none, and the module's code invoking wrappers  *)
(* before, during and after that negotiation.  A killed process takes no   *)
(* further step.                                                           *)
(***************************************************************************)
\* The ids the switch of the scan has a case label for.
RecognisedIds ==
    {id \in OSSL_FUNC_CORE_GET_PARAM_TYPES ..
            OSSL_FUNC_CORE_GET_CRYPTO_SECURE_MALLOC_INITIALIZED :
        scan_case(id) # ""}

\* The host table that offers the ids of S, in ascending order, each
\* backed by host function h.
TableOf(S, h) ==
    LET nth(k) == CHOOSE x \in S : Cardinality({y \in S : y < x}) = k - 1
    IN [i \in 1..(Cardinality(S) + 1) |->
           IF i <= Cardinality(S)
           THEN [function_id |-> nth(i), function |-> h]
           ELSE [function_id |-> 0, function |-> NULL]]

CallTables ==
    {TableOf(S, h) :
        S \in {RecognisedIds, {}} \cup {RecognisedIds \ {k} : k \in RecognisedIds},
        h \in HostFns}

Running == wres # "crashed"

NextCalls ==
    \/ Running /\ nExt = 0 /\ \E t \in CallTables : OSSL_provider_init_scan(t)
    \/ Running /\ OSSL_provider_init_ctx_new
    \/ Running /\ OSSL_provider_init_self_check
    \/ Running /\ OSSL_provider_init_bind
    \/ Running /\ \E w \in Wrappers : wrapper_call(w)

SpecCalls == Init /\ [][NextCalls]_vars

(***************************************************************************)
(* Concurrent readers: the module after a successful negotiation, and      *)
(* NThreads threads of the host each running one of the three read-only    *)
(* entry points, their steps interleaved in every order.                   *)
(***************************************************************************)
InitThreads ==
    /\ reg \in {scan(t, c_registry) : t \in ReadTables}
    /\ pre_reg = c_registry
    /\ pc = "idle"
    /\ in = NULL_TABLE
    /\ ctx = 1
    /\ st = "passed"
    /\ out = fips_dispatch_table
    /\ provctx = 1
    /\ iout = NULL_TABLE
    /\ iprovctx = NULL_CTX
    /\ live = {1}
    /\ created = 1
    /\ nExt = 1
    /\ last = "OSSL_provider_init"
    /\ ret = 1
    /\ params = <<>>
    /\ nSucc = 1
    /\ nTorn = 0
    /\ types = NULL_TABLE
    /\ qop = 0
    /\ algs = NULL_TABLE
    /\ no_cache = 1
    /\ wfn = "none"
    /\ wres = "none"
    /\ th = [t \in Threads |-> IdleThread]

NextThreads ==
    \/ \E t \in Threads : thread_get_param_types(t)
    \/ \E t \in Threads, a \in ReadArrays : thread_get_params_name(t, a)
    \/ \E t \in Threads : thread_get_params_version(t)
    \/ \E t \in Threads : thread_get_params_buildinfo(t)
    \/ \E t \in Threads, op \in OperationIds : thread_query_store(t, op)
    \/ \E t \in Threads : thread_query_switch(t)

SpecThreads == InitThreads /\ [][NextThreads]_vars

(***************************************************************************)
(*                               Properties                                *)
(***************************************************************************)
\* The latest OSSL_provider_init call has just returned.
InitReturned == pc = "idle" /\ last = "OSSL_provider_init"

Max(S) == CHOOSE x \in S : \A y \in S : y <= x
Min(S) == CHOOSE x \in S : \A y \in S : x <= y

\* C1: a failed self-check releases the call's context and returns failure,
\* and the outgoing table is written to *out only by the bind step, after
\* the self-check of that call has run and passed: in no state does *out
\* hold fips_dispatch_table while the call's self-check has not passed.
C1_SelfCheckGate ==
    /\ out = fips_dispatch_table => st = "passed"
    /\ (InitReturned /\ st = "failed") =>
          /\ ret = 0
          /\ ctx # NULL_CTX
          /\ ctx \notin live
    /\ pc = "bind" => st = "passed"

\* A negotiation whose self-check failed has returned.
C1_Witness ==
    /\ InitReturned
    /\ st = "failed"
    /\ ret = 0
    /\ ctx # NULL_CTX

\* C2: when OSSL_provider_init returns failure, the context it created (if
\* any) is no longer live and neither *out nor *provctx has been written.
C2_AllOrNothing ==
    (InitReturned /\ ret = 0) =>
        /\ ctx \notin live
        /\ out = NULL_TABLE
        /\ provctx = NULL_CTX
        /\ st \in {"not_run", "failed"}
        /\ (st = "not_run") = (ctx = NULL_CTX)

\* A negotiation has failed on context allocation while an earlier
\* negotiation's context is live.
C2_Witness ==
    /\ InitReturned
    /\ ret = 0
    /\ st = "not_run"
    /\ ctx = NULL_CTX
    /\ live # {}

\* C3: after OSSL_provider_init has returned failure the registry equals
\* the registry at entry of the call.
C3_RegistryRestored ==
    (InitReturned /\ ret = 0) => reg = pre_reg

\* C4: when context allocation and the self-check succeed the call returns
\* success, *out is the non-null fips_dispatch_table and *provctx is the
\* non-null context this call created; it returns success in no other case.
C4_Success ==
    InitReturned =>
        /\ (ctx # NULL_CTX /\ st = "passed") = (ret = 1)
        /\ ret = 1 =>
              /\ out = fips_dispatch_table
              /\ out # NULL_TABLE
              /\ provctx = ctx
              /\ provctx # NULL_CTX
              /\ provctx = created
              /\ provctx \in live

\* A second negotiation has succeeded, on a registry that holds pointers.
C4_Witness ==
    /\ InitReturned
    /\ ret = 1
    /\ nExt = 2
    /\ reg.c_CRYPTO_zalloc # NULL

\* C5 as stated: the number of Context-creation events equals the number of
\* external negotiations, whatever internal re-entries happened.
C5_OnePerNegotiation ==
    pc = "idle" => created = nExt

\* A step of fips_intern_provider_init that changes the state.
InternStep ==
    /\ last' = "fips_intern_provider_init"
    /\ last # "fips_intern_provider_init" \/ iout' # iout \/ iprovctx' # iprovctx

\* C5, amended: internal re-entry returns success with intern_dispatch_table
\* in its *out, leaves *provctx as the caller pre-populated it, and creates
\* no context, runs no self-check and writes no registry entry; contexts
\* are created only by OSSL_provider_init, one per call whose allocation
\* succeeds and none per call whose allocation fails.
C5_InternReentry ==
    /\ [](last = "fips_intern_provider_init" =>
            /\ ret = 1
            /\ iout = intern_dispatch_table
            /\ iprovctx # NULL_CTX)
    /\ [](created <= nExt)
    /\ [](pc \in {"self_check", "bind"} => ctx = created)
    /\ [][InternStep =>
            /\ created' = created
            /\ live' = live
            /\ iprovctx' \in live
            /\ st' = st
            /\ reg' = reg
            /\ provctx' = provctx
            /\ out' = out]_vars
    /\ [][created' # created =>
            /\ pc = "ctx_new"
            /\ created' = created + 1
            /\ ctx' = created']_vars

\* An internal re-entry has returned after two external negotiations of
\* which one failed to allocate its context.
C5_Witness ==
    /\ last = "fips_intern_provider_init"
    /\ nExt = 2
    /\ created = 1
    /\ pc = "idle"

(***************************************************************************)
(* Properties of fips_get_params.                                          *)
(***************************************************************************)
GetParamsReturned == last = "fips_get_params"

\* The slots of the request: those before the first end slot.
Requested == 1..(Min({i \in 1..Len(params) : params[i].key = NULL}) - 1)

\* No name occurs twice among the requested slots.
NoRepeats ==
    \A i, j \in Requested : params[i].key = params[j].key => i = j

\* Some requested slot names a known parameter with a type other than
\* UTF8 pointer.
TypeMismatch ==
    \E i \in Requested :
        params[i].key \in KnownKeys /\ params[i].data_type # OSSL_PARAM_UTF8_PTR

\* What the module declares for each known name.
Declared(key) ==
    CASE key = "name" -> "OpenSSL FIPS Provider"
      [] key = "version" -> OPENSSL_VERSION_STR
      [] key = "buildinfo" -> OPENSSL_FULL_VERSION_STR

FirstOf(i) == \A j \in Requested : params[j].key = params[i].key => i <= j

\* C6, on requests that name each parameter at most once: a request with a
\* type mismatch on a known name fails and no slot of the array has been
\* filled.
C6_NoPartialFill ==
    (GetParamsReturned /\ TypeMismatch /\ NoRepeats) =>
        /\ ret = 0
        /\ \A i \in 1..Len(params) : params[i].data = NULL

\* C7 as stated: without a type mismatch every requested slot with a known
\* name is filled with the declared value, repeated names included.
C7_FillsEverySlot ==
    (GetParamsReturned /\ ~TypeMismatch) =>
        /\ ret = 1
        /\ \A i \in Requested :
              params[i].key \in KnownKeys => params[i].data = Declared(params[i].key)

\* C7, amended: without a type mismatch the call returns success and, for
\* each known name, fills the first requested slot carrying it with the
\* declared value; a later slot repeating the name is left unfilled.
C7_FillsFirstSlot ==
    (GetParamsReturned /\ ~TypeMismatch) =>
        /\ ret = 1
        /\ \A i \in Requested :
              params[i].key \in KnownKeys =>
                  params[i].data = IF FirstOf(i) THEN Declared(params[i].key) ELSE NULL

\* A call has resolved two names at once in a request that repeats one.
C7_Witness ==
    /\ GetParamsReturned
    /\ ~TypeMismatch
    /\ Len(params) = 4
    /\ params[1].key = "buildinfo" /\ params[1].data = OPENSSL_FULL_VERSION_STR
    /\ params[2].key = "name" /\ params[2].data = "OpenSSL FIPS Provider"
    /\ params[3].key = "buildinfo" /\ params[3].data = NULL

\* C8: a slot whose name is not name, version or build-info is never
\* written, and a request holding only such slots, or none, succeeds.
C8_UnknownName ==
    GetParamsReturned =>
        /\ \A i \in 1..Len(params) :
              params[i].key \notin KnownKeys => params[i].data = NULL
        /\ (\A i \in Requested : params[i].key \notin KnownKeys) => ret = 1

\* A call has returned success for a request of unknown names only, one
\* of them typed as an integer.
C8_Witness ==
    /\ GetParamsReturned
    /\ ret = 1
    /\ Len(params) = 3
    /\ params[1].key = "module-filename" /\ params[1].data_type = 1
    /\ params[2].key = "module-filename" /\ params[2].data = NULL

(***************************************************************************)
(* Properties of the scan.                                                 *)
(***************************************************************************)
\* The entries the scan visits: those before the first terminator.
Scanned == 1..(Min({i \in 1..Len(in) : in[i].function_id = 0}) - 1)

\* The visited entries carrying capability id.
Carrying(id) == {i \in Scanned : in[i].function_id = id}

\* C9: right after the scan, the registry entry of each known id the table
\* carries before its terminator holds the pointer from the table, and
\* every other entry is as it was before the call: unknown ids and entries
\* after the terminator capture nothing and stop nothing.
C9_ScanCaptures ==
    pc = "ctx_new" =>
        /\ reg.c_get_params =
              IF Carrying(OSSL_FUNC_CORE_GET_PARAMS) = {}
              THEN pre_reg.c_get_params
              ELSE in[Max(Carrying(OSSL_FUNC_CORE_GET_PARAMS))].function
        /\ reg.c_CRYPTO_zalloc =
              IF Carrying(OSSL_FUNC_CORE_GET_CRYPTO_ZALLOC) = {}
              THEN pre_reg.c_CRYPTO_zalloc
              ELSE in[Max(Carrying(OSSL_FUNC_CORE_GET_CRYPTO_ZALLOC))].function
        /\ \A f \in RegFields \ {"c_get_params", "c_CRYPTO_zalloc"} : reg[f] = pre_reg[f]

\* A table with an unknown id before a known id has been scanned.
C9_Witness ==
    /\ pc = "ctx_new"
    /\ Len(in) = 3
    /\ in[1].function_id \in UnknownIds
    /\ in[2] = [function_id |-> OSSL_FUNC_CORE_GET_PARAMS, function |-> "h2"]
    /\ in[3].function_id = 0
    /\ reg.c_get_params = "h2"

\* C10: once a negotiation has succeeded, a further OSSL_provider_init
\* call leaves every registry entry as the earlier negotiation left it.
C10_NoRenegotiation ==
    (InitReturned /\ live \ {ctx} # {}) =>
        \A f \in RegFields : pre_reg[f] # NULL => reg[f] = pre_reg[f]

QueryReturned(op) ==
    /\ last' = "fips_query"
    /\ qop' = op
    /\ last # "fips_query" \/ qop # op

\* C12: a fips_query call for a category other than digests returns the
\* NULL list and writes 0 to *no_cache; it invokes no error-reporting
\* wrapper and leaves the registry, the Contexts, both callers' slots and
\* every other result as they were.
C12_OtherCategory ==
    [][\A op \in OperationIds \ {OSSL_OP_DIGEST} : QueryReturned(op) =>
          /\ algs' = NULL_TABLE
          /\ no_cache' = 0
          /\ UNCHANGED <<reg, pre_reg, pc, in, ctx, st, out, provctx,
                         iout, iprovctx, live, created, nExt, ret, params,
                         nSucc, nTorn, types, wfn, wres, th>>]_vars

\* A query for a category the switch has no case for has returned.
C12_Witness ==
    /\ last = "fips_query"
    /\ qop = 77
    /\ algs = NULL_TABLE
    /\ no_cache = 0
    /\ provctx \in live

\* The descriptors of a list before its first null-name entry.
Descriptors(l) ==
    {i \in 1..Len(l) : \A j \in 1..i : l[j].algorithm_name # NULL}

\* C13: the list a digest query returned ends in a null-name entry, every
\* descriptor before it has a non-empty name, a non-empty property string
\* and a function table, and one of them is SHA256 with "fips=yes".
C13_DigestList ==
    qop = OSSL_OP_DIGEST =>
        /\ Len(algs) >= 1
        /\ algs[Len(algs)].algorithm_name = NULL
        /\ Descriptors(algs) = 1..(Len(algs) - 1)
        /\ \A i \in Descriptors(algs) :
              /\ algs[i].algorithm_name \notin {NULL, ""}
              /\ algs[i].property_definition \notin {NULL, ""}
              /\ algs[i].implementation # NULL
        /\ \E i \in Descriptors(algs) :
              /\ algs[i].algorithm_name = "SHA256"
              /\ algs[i].property_definition = "fips=yes"

\* A digest query has returned a list that is not the NULL list.
C13_Witness ==
    /\ last = "fips_query"
    /\ qop = OSSL_OP_DIGEST
    /\ algs # NULL_TABLE
    /\ algs[1].algorithm_name = "SHA256"

TypesReturned ==
    /\ last' = "fips_get_param_types"
    /\ last # "fips_get_param_types"

\* C15: what fips_get_param_types returned ends in its only null-name
\* entry and before it holds the names name, version and buildinfo, once
\* each and each as a UTF8 pointer; a call returns the list the call before
\* it returned, whether or not fips_get_params calls, successful or failed,
\* came in between, and changes nothing else.
C15_ParamTypesPure ==
    /\ [](types # NULL_TABLE =>
            /\ Len(types) = 4
            /\ types[4] = [id |-> 0, ptr |-> NULL]
            /\ \A i \in 1..3 : types[i].id = OSSL_PARAM_UTF8_PTR
            /\ {types[i].ptr : i \in 1..3} = {"name", "version", "buildinfo"})
    /\ [][TypesReturned =>
            /\ types # NULL_TABLE => types' = types
            /\ UNCHANGED <<reg, pre_reg, pc, in, ctx, st, out, provctx,
                           iout, iprovctx, live, created, nExt, ret, params,
                           nSucc, nTorn, qop, algs, no_cache, wfn, wres, th>>]_vars

\* fips_get_param_types has returned its list after a fips_get_params call
\* that failed on a request of the wrong type.
C15_Witness ==
    /\ last = "fips_get_param_types"
    /\ types = fips_param_types
    /\ provctx \in live
    /\ ret = 0
    /\ params[1].key \in KnownKeys
    /\ params[1].data_type # OSSL_PARAM_UTF8_PTR

\* C16: a wrapper invoked while its registry entry is unset signals
\* failure to its caller and does not call through the unset pointer,
\* during OSSL_provider_init as well as between calls.
C16_UnsetSignalsFailure ==
    (wfn # "none" /\ reg[wrapper_backing(wfn)] = NULL) => wres = "failure"

\* C17: when a negotiation has succeeded and its scan has captured every
\* capability it has a case for, the backing pointer of every forwarding
\* wrapper is set.
C17_WrappersBacked ==
    (/\ InitReturned
     /\ ret = 1
     /\ \A id \in RecognisedIds : reg[scan_case(id)] # NULL)
    => \A w \in Wrappers : reg[wrapper_backing(w)] # NULL

\* What the call thread t has finished returns when it runs alone.
RunAlone(t) ==
    /\ th[t].fn = "fips_get_param_types" =>
          th[t].list = fips_get_param_types_body
    /\ th[t].fn = "fips_get_params" =>
          /\ th[t].ret = fips_get_params_body(th[t].req).ret
          /\ th[t].params = fips_get_params_body(th[t].req).params
    /\ th[t].fn = "fips_query" =>
          /\ th[t].list = fips_query_body(th[t].op).ret
          /\ th[t].no_cache = fips_query_body(th[t].op).no_cache

\* C18: with the module initialised, however the steps of concurrent
\* fips_get_param_types, fips_get_params and fips_query calls interleave,
\* every finished call has returned, and left in its caller's array and
\* slot, what it does when run alone; no step writes a registry entry, a
\* Context or any other state of the module, and no step writes what
\* belongs to another thread.
C18_ConcurrentReads ==
    /\ [](\A t \in Threads : th[t].pc = "done" => RunAlone(t))
    /\ [][/\ UNCHANGED <<reg, pre_reg, pc, in, ctx, st, out, provctx,
                         iout, iprovctx, live, created, nExt, last, ret,
                         params, nSucc, nTorn, types, qop, algs, no_cache,
                         wfn, wres>>
          /\ Cardinality({t \in Threads : th'[t] # th[t]}) <= 1]_vars

\* Thread 1 is two steps into a fips_get_params call while thread 2 has
\* done the store of a fips_query call and not yet its switch.
C18_Witness ==
    /\ th[1].fn = "fips_get_params"
    /\ th[1].pc = "buildinfo"
    /\ th[1].params # th[1].req
    /\ th[2].fn = "fips_query"
    /\ th[2].pc = "switch"

\* The ids a dispatch table holds before its last entry.
EntryIds(t) == {t[i].function_id : i \in 1..(Len(t) - 1)}

\* The last entry of t has id 0, no entry before it has, and no id occurs
\* twice.
ZeroTerminated(t) ==
    /\ Len(t) >= 1
    /\ t[Len(t)].function_id = 0
    /\ 0 \notin EntryIds(t)
    /\ Cardinality(EntryIds(t)) = Len(t) - 1

\* C19: the table fips_intern_provider_init hands out is zero-terminated
\* without duplicate ids and holds the query-operation entry only, no
\* teardown, get-param-types or get-params entry, so that no call made
\* through it destroys a Context; the table a successful negotiation hands
\* out is zero-terminated without duplicate ids and holds exactly the
\* teardown, get-param-types, get-params and query-operation entries.
C19_TablesExact ==
    /\ [](iout # NULL_TABLE =>
            /\ ZeroTerminated(iout)
            /\ EntryIds(iout) = {OSSL_FUNC_PROVIDER_QUERY_OPERATION}
            /\ \A i \in 1..Len(iout) : iout[i].function # "OPENSSL_CTX_free")
    /\ [](out # NULL_TABLE =>
            /\ ZeroTerminated(out)
            /\ EntryIds(out) = {OSSL_FUNC_PROVIDER_TEARDOWN,
                                OSSL_FUNC_PROVIDER_GET_PARAM_TYPES,
                                OSSL_FUNC_PROVIDER_GET_PARAMS,
                                OSSL_FUNC_PROVIDER_QUERY_OPERATION})
    /\ [][(\E i \in 1..Len(iout), op \in OperationIds : intern_call(i, op))
             => live' = live]_vars

\* A call through the internally obtained table has returned: the host's
\* own provider is torn down, so the query just answered was made through
\* the internal table, and the Context behind it is still live.
C19_Witness ==
    /\ pc = "idle"
    /\ last = "fips_query"
    /\ iout = intern_dispatch_table
    /\ iprovctx \in live
    /\ provctx \notin live
    /\ provctx # NULL_CTX

====
